---- MODULE Spec2Model ----
(***************************************************************************)
(* MemeApp (src/js/app.js): the feed-loading and pagination engine.        *)
(*                                                                         *)
(* JavaScript runs one callback at a time, so every action below is one    *)
(* run-to-completion step: a handler from its entry to its first await, or *)
(* the continuation of an async method from one await to the next.  The    *)
(* loads that are suspended at `await this.fetchMemes(...)` are the        *)
(* records of `tasks`; each of them has exactly one request outstanding.   *)
(*                                                                         *)
(* ThemeManager (src/js/theme.js), the second script of the page, is the   *)
(* record `tm`; its handlers are the actions of SpecTheme.                 *)
(***************************************************************************)
EXTENDS Integers, Sequences, FiniteSets, TLC

\* ------------------------------------------------------------------ bounds
MaxId == 2          \* post links are 1..MaxId
MaxResp == 1        \* an API response holds at most MaxResp records
MaxTasks == 2       \* loads suspended at a fetch at the same time
MaxFailed == 5      \* cap on the growth of failedAttempts
RandDen == 2        \* Math.random() is drawn from {0/RandDen .. (RandDen-1)/RandDen}
PageIds == 7        \* post links of the full-page specification are 1..PageIds
PageRun == 3        \* its responses are runs of at most PageRun records

\* --------------------------------------------------------- program constants
subreddits == <<"ProgrammerHumor", "programmingmemes", "codingmemes">>
maxFailedAttempts == 3
cardEstimatedHeight == 600
initialCount == 10
ScreenHeights == {700, 1700}
DefaultHeight == 700

NumSubreddits == Len(subreddits)
Min(a, b) == IF a < b THEN a ELSE b
Max(a, b) == IF a > b THEN a ELSE b

\* --------------------------------------------------------------- raw records
\* One record of data.memes.  isNull: the array element is null; hasUps: the
\* record carries the `ups` number.
Post(link, nsfw, hasUps) ==
    [isNull |-> FALSE, postLink |-> link, nsfw |-> nsfw, hasUps |-> hasUps]
NullPost == [isNull |-> TRUE, postLink |-> 0, nsfw |-> FALSE, hasUps |-> FALSE]

\* The records the upstream API documents: every field present, flagged NSFW
\* or not.  The post MaxId comes both safe and flagged; the post NsfwOnlyId
\* only ever comes flagged.  Malformed records (no `ups`, a null element) make
\* the code throw.
NsfwOnlyId == MaxId + 1
SafePosts == {Post(l, FALSE, TRUE) : l \in 1..MaxId}
Posts == SafePosts \cup {Post(MaxId, TRUE, TRUE), Post(NsfwOnlyId, TRUE, TRUE)}
Malformed == {Post(1, FALSE, FALSE), NullPost}

\* The `memes` arrays over a set of records: at most MaxResp records, all but
\* the last of them well-formed and safe.
Arrays(S) ==
    {<<>>} \cup
    UNION {{Append(s, x) : s \in [1..k -> SafePosts], x \in S} : k \in 0..(MaxResp - 1)}

\* What one `fetch(url)` plus `response.json()` ends with: a transport error,
\* a non-success status, or a body.  The body has a `memes` array or not.
NetError == [net |-> "error", hasMemes |-> FALSE, memes |-> <<>>]
HttpError == [net |-> "status", hasMemes |-> FALSE, memes |-> <<>>]
Body(ms) == [net |-> "ok", hasMemes |-> TRUE, memes |-> ms]
BodyNoMemes == [net |-> "ok", hasMemes |-> FALSE, memes |-> <<>>]

Outcomes ==
    {NetError, HttpError, BodyNoMemes} \cup {Body(ms) : ms \in Arrays(Posts)}

\* Responses that make the code throw while it normalizes or renders.
ThrowOutcomes == {Body(ms) : ms \in Arrays(Malformed) \ {<<>>}}

\* Responses of the specification with exceptions: a failed fetch, one valid
\* record, and the responses that throw.
ThrowMix == {NetError, Body(<<Post(1, FALSE, TRUE)>>)} \cup ThrowOutcomes

\* Responses of the full-page specification: runs of well-formed records.
Run(a, n) == [i \in 1..n |-> Post(a + i - 1, FALSE, TRUE)]
PageOutcomes ==
    {HttpError} \cup
    {Body(Run(a, n)) : a \in 1..(PageIds - PageRun + 1), n \in {0, PageRun}}

\* ------------------------------------------------------------ pure functions
\* fetchMemes: the data, or null (isNull) on any transport error or status.
NullData == [isNull |-> TRUE, hasMemes |-> FALSE, memes |-> <<>>]
fetchMemesPropagates(out) ==
    IF out.net = "ok"
    THEN [isNull |-> FALSE, hasMemes |-> out.hasMemes, memes |-> out.memes]
    ELSE [isNull |-> FALSE, hasMemes |-> TRUE, memes |-> <<NullPost>>]
fetchMemes(out) ==
    IF out.net = "ok"
    THEN [isNull |-> FALSE, hasMemes |-> out.hasMemes, memes |-> out.memes]
    ELSE NullData

Meme(post) == [id |-> post.postLink, hasUps |-> post.hasUps]

\* The body of the for-of loop of parseMemes, record by record.  threw: the
\* loop ended in a TypeError (property read on a null record); the ids added
\* before it stay in seenIds.
RECURSIVE parseLoopNoNsfw(_, _, _)
parseLoopNoNsfw(posts, seen, memes) ==
    IF posts = <<>> THEN [memes |-> memes, seenIds |-> seen, threw |-> FALSE]
    ELSE LET post == Head(posts) IN
         IF post.isNull THEN [memes |-> memes, seenIds |-> seen, threw |-> TRUE]
         ELSE IF post.postLink \in seen THEN parseLoopNoNsfw(Tail(posts), seen, memes)
         ELSE parseLoopNoNsfw(Tail(posts), seen \cup {post.postLink},
                              Append(memes, Meme(post)))
RECURSIVE parseLoopNoSeen(_, _, _)
parseLoopNoSeen(posts, seen, memes) ==
    IF posts = <<>> THEN [memes |-> memes, seenIds |-> seen, threw |-> FALSE]
    ELSE LET post == Head(posts) IN
         IF post.isNull THEN [memes |-> memes, seenIds |-> seen, threw |-> TRUE]
         ELSE IF post.nsfw THEN parseLoopNoSeen(Tail(posts), seen, memes)
         ELSE parseLoopNoSeen(Tail(posts), seen \cup {post.postLink},
                              Append(memes, Meme(post)))
RECURSIVE parseLoop(_, _, _)
parseLoop(posts, seen, memes) ==
    IF posts = <<>> THEN [memes |-> memes, seenIds |-> seen, threw |-> FALSE]
    ELSE LET post == Head(posts) IN
         IF post.isNull THEN [memes |-> memes, seenIds |-> seen, threw |-> TRUE]
         ELSE IF post.postLink \in seen THEN parseLoop(Tail(posts), seen, memes)
         ELSE IF post.nsfw THEN parseLoop(Tail(posts), seen, memes)
         ELSE parseLoop(Tail(posts), seen \cup {post.postLink},
                        Append(memes, Meme(post)))

parseMemes(data, seen) ==
    IF data.isNull \/ ~data.hasMemes
    THEN [memes |-> <<>>, seenIds |-> seen, threw |-> FALSE]
    ELSE parseLoop(data.memes, seen, <<>>)

\* calculateItemsPerPage: floor(max(6, min(20, ceil(h / 600) * 2.5))), in halves.
calculateItemsPerPage(screenHeight) ==
    LET cardsPerScreen == (screenHeight + cardEstimatedHeight - 1) \div cardEstimatedHeight
        items2 == Max(12, Min(40, cardsPerScreen * 5))
    IN items2 \div 2

\* shuffleArray: for i from the last index down to 1, swap with
\* j = floor(random * (i + 1)); indices are 0-based in the source.
Swap(a, i, j) == [a EXCEPT ![i] = a[j], ![j] = a[i]]
RECURSIVE shuffleFrom(_, _, _)
shuffleFrom(array, i, r) ==
    IF i <= 0 THEN array
    ELSE LET j == (r * (i + 1)) \div RandDen
         IN shuffleFrom(Swap(array, i + 1, j + 1), i - 1, r)
shuffleArray(array, r) == shuffleFrom(array, Len(array) - 1, r)

\* slice(0, n)
SliceAll(s, n) == s
Slice(s, n) == SubSeq(s, 1, Min(n, Len(s)))

\* ------------------------------------------------------------------ the feed
Skeleton == [type |-> "skeleton", id |-> 0]
ErrorBox == [type |-> "error", id |-> 0]
Card(meme) == [type |-> "card", id |-> meme.id]

\* showSkeletons(count): the feed is emptied and holds count skeletons.
Skeletons(count) == [i \in 1..count |-> Skeleton]
showSkeletons(count) == Skeletons(count)

\* memes.forEach(meme => feed.appendChild(createMemeCard(meme))).
\* createMemeCard throws in formatNumber(meme.upvotes) when upvotes is
\* undefined; the cards appended before stay in the feed.
RECURSIVE appendCards(_, _)
appendCards(f, memes) ==
    IF memes = <<>> THEN [feed |-> f, threw |-> FALSE]
    ELSE IF ~Head(memes).hasUps THEN [feed |-> f, threw |-> TRUE]
    ELSE appendCards(Append(f, Card(Head(memes))), Tail(memes))

CardIds(f) == {f[i].id : i \in {k \in 1..Len(f) : f[k].type = "card"}}
MemeIds(ms) == {ms[i].id : i \in 1..Len(ms)}

\* History only.  "leaked": some produced item has no safe record of the
\* response as its source, so it can only have come from a record flagged
\* NSFW; "dropped": the response held NSFW records and none of them produced
\* an item; "none": it held no NSFW record.
NsfwSeen(posts, memes) ==
    IF \E k \in 1..Len(memes) :
          ~\E j \in 1..Len(posts) :
              /\ ~posts[j].isNull
              /\ ~posts[j].nsfw
              /\ posts[j].postLink = memes[k].id
    THEN "leaked"
    ELSE IF \E j \in 1..Len(posts) : ~posts[j].isNull /\ posts[j].nsfw
    THEN "dropped"
    ELSE "none"

\* -------------------------------------------------------------------- state
VARIABLES
    isLoading,              \* this.isLoading
    hasMore,                \* this.hasMore
    currentSubredditIndex,  \* this.currentSubredditIndex, 0-based
    seenIds,                \* this.seenIds
    failedAttempts,         \* this.failedAttempts
    itemsPerPage,           \* this.itemsPerPage
    feed,                   \* children of #feed, in document order
    endMessage,             \* #endMessage is displayed
    loadingIndicator,       \* #loadingIndicator has class "active"
    tasks,                  \* the loads suspended at `await this.fetchMemes(..)`
    last,                   \* history: what the last handler did
    zeroStreak,             \* history: consecutive incremental loads that ended with zero items
    due,                    \* history: an initial load has completed and no incremental load has started since
    tm                      \* the ThemeManager, its DOM and its localStorage key

prog == <<isLoading, hasMore, currentSubredditIndex, seenIds, failedAttempts,
          itemsPerPage, feed, endMessage, loadingIndicator, tasks>>
vars == <<prog, last, zeroStreak, due, tm>>

\* A suspended load.  kind, sub (index of the category being fetched), count
\* (items asked for) and allMemes are the locals of the async method; fa0,
\* first, solo and reqs are history: failedAttempts when the load started,
\* whether it is the first incremental load after an initial load, whether no
\* reload and no other load has overlapped it, and the categories it has
\* requested so far; fresh: the load was started by the most recent reload.
InitialTask(solo) ==
    [kind |-> "initial", sub |-> 0, count |-> initialCount, allMemes |-> <<>>,
     fa0 |-> 0, first |-> FALSE, solo |-> solo, reqs |-> <<0>>, fresh |-> FALSE]
MoreTask(sub, count, fa0, first) ==
    [kind |-> "more", sub |-> sub, count |-> count, allMemes |-> <<>>,
     fa0 |-> fa0, first |-> first, solo |-> FALSE, reqs |-> <<sub>>, fresh |-> FALSE]

\* showError(message): the feed holds the error box and nothing else.
showErrorAppended == Append(feed, ErrorBox)
showError == <<ErrorBox>>

RemoveAtKeeps(s, i) == s
RemoveAt(s, i) == [k \in 1..(Len(s) - 1) |-> IF k < i THEN s[k] ELSE s[k + 1]]

\* The history record: the handler that ran last (op) and what the properties
\* need to know about the load it belongs to: first, solo and reqs as in the task,
\* n the number of items its normalization produced, fa0 the value of
\* failedAttempts when the load started, nsfw see NsfwSeen, hadSeen whether
\* seenIds held an id when a reload was issued, failed whether the fetch the
\* handler resumed from had failed (transport error or non-success status),
\* fresh as in the task, cur the cursor when an incremental load resumed,
\* hit whether its response held a record whose id was in seenIds and on no
\* card of the feed.
NoLast ==
    [op |-> "setup", first |-> FALSE, solo |-> FALSE, reqs |-> <<>>, n |-> 0,
     fa0 |-> 0, nsfw |-> "none", hadSeen |-> FALSE, failed |-> FALSE,
     fresh |-> FALSE, cur |-> 0, hit |-> FALSE]
ReloadOps == {"reloadClick", "reloadFeed"}

\* ------------------------------------------------------------ ThemeManager
Themes == {"light", "dark"}
NoTheme == "none"          \* localStorage.getItem('theme') returns null

\* getInitialTheme: the saved theme, else the system preference when
\* matchMedia exists and reports light, else dark.
getInitialTheme(saved, hasMatchMedia, os) ==
    IF saved # NoTheme THEN saved
    ELSE IF hasMatchMedia /\ os = "light" THEN "light"
    ELSE "dark"

\* updateMetaThemeColor: the content of <meta name="theme-color">.
metaThemeColor(theme) == IF theme = "dark" THEN "#161b22" ELSE "#f6f8fa"

\* applyTheme(theme) on the manager t: the data-theme attribute, this.theme,
\* the localStorage key and the meta colour.
applyTheme(t, theme) ==
    [t EXCEPT !.attr = theme, !.theme = theme, !.stored = theme,
              !.meta = metaThemeColor(theme)]

\* new ThemeManager(): getInitialTheme, then init() applies it.  saved is the
\* value the key held on page load, os the system colour scheme, hasButton
\* whether #themeToggle exists.  History: saved0, toggled (the user has
\* clicked the toggle), before (this.theme before the last handler), op.
ThemeManager(saved, os, hasMatchMedia, hasButton) ==
    applyTheme([theme |-> NoTheme, attr |-> NoTheme, stored |-> saved,
                meta |-> NoTheme, os |-> os, hasMatchMedia |-> hasMatchMedia,
                hasButton |-> hasButton, scaled |-> FALSE, saved0 |-> saved,
                toggled |-> FALSE, before |-> NoTheme, op |-> "init"],
               getInitialTheme(saved, hasMatchMedia, os))

\* The page of the feed specifications: first visit, dark system scheme.
ThemeIdle == ThemeManager(NoTheme, "dark", TRUE, TRUE)

\* constructor and setup(): the skeletons are shown and loadInitialMemes has
\* run up to its first await.
Setup(h) ==
    /\ hasMore = TRUE
    /\ currentSubredditIndex = 0
    /\ seenIds = {}
    /\ itemsPerPage = calculateItemsPerPage(h)
    /\ feed = showSkeletons(itemsPerPage)
    /\ endMessage = FALSE
    /\ loadingIndicator = FALSE
    /\ isLoading = TRUE
    /\ failedAttempts = 0
    /\ tasks = <<InitialTask(TRUE)>>
    /\ last = NoLast
    /\ zeroStreak = 0
    /\ due = FALSE

Init == Setup(DefaultHeight) /\ tm = ThemeIdle

\* ------------------------------------------------------------------ actions

\* loadInitialMemes, resumed after `await this.fetchMemes(subreddit, 10)` of
\* the category tasks[i].sub with the outcome `out`; r is the value of
\* Math.random() in shuffleArray.
loadInitialMemesResume(i, out, r) ==
    LET t == tasks[i]
        data == fetchMemes(out)
        p == parseMemes(data, seenIds)
        all == t.allMemes \o p.memes
        final == t.sub + 1 >= NumSubreddits
        shuffled == shuffleArray(all, r)
        res == appendCards(<<>>, Slice(shuffled, itemsPerPage))
        hl == [NoLast EXCEPT !.solo = t.solo, !.reqs = t.reqs,
                             !.nsfw = NsfwSeen(out.memes, p.memes),
                             !.failed = (out.net # "ok"),
                             !.fresh = t.fresh]
    IN
    /\ t.kind = "initial"
    /\ Len(out.memes) <= t.count
    /\ (~final \/ Len(all) <= 1) => r = 0
    /\ seenIds' = p.seenIds
    /\ IF p.threw THEN
            \* the TypeError leaves loadInitialMemes: nothing after line 171 runs
            /\ tasks' = RemoveAt(tasks, i)
            /\ last' = [hl EXCEPT !.op = "initialThrew"]
            /\ UNCHANGED <<feed, isLoading, due>>
       ELSE IF ~final THEN
            /\ tasks' = [tasks EXCEPT ![i] = [t EXCEPT !.sub = t.sub + 1,
                                                       !.allMemes = all,
                                                       !.reqs = Append(t.reqs, t.sub + 1)]]
            /\ last' = [hl EXCEPT !.op = "initialNext"]
            /\ UNCHANGED <<feed, isLoading, due>>
       ELSE IF Len(all) = 0 THEN
            /\ tasks' = RemoveAt(tasks, i)
            /\ feed' = showError
            /\ isLoading' = FALSE
            /\ last' = [hl EXCEPT !.op = "initialEmpty"]
            /\ due' = TRUE
       ELSE
            /\ tasks' = RemoveAt(tasks, i)
            /\ feed' = res.feed
            /\ isLoading' = IF res.threw THEN isLoading ELSE FALSE
            /\ last' = [hl EXCEPT !.op = IF res.threw THEN "initialThrew"
                                                      ELSE "initialDone",
                                  !.n = Len(all)]
            /\ due' = IF res.threw THEN due ELSE TRUE
    /\ UNCHANGED <<hasMore, currentSubredditIndex, failedAttempts, itemsPerPage,
                   endMessage, loadingIndicator, zeroStreak, tm>>

\* loadMore() from its entry to `await this.fetchMemes(subreddit, itemsPerPage)`.
LoadMoreStart ==
    /\ Len(tasks) < MaxTasks
    /\ isLoading' = TRUE
    /\ loadingIndicator' = TRUE
    /\ tasks' = Append(tasks, MoreTask(currentSubredditIndex, itemsPerPage,
                                       failedAttempts, due))
    /\ last' = [NoLast EXCEPT !.op = "loadMore", !.first = due]
    /\ due' = FALSE
    /\ UNCHANGED <<hasMore, currentSubredditIndex, seenIds, failedAttempts,
                   itemsPerPage, feed, endMessage, zeroStreak, tm>>

loadMoreWeakGuard ==
    IF isLoading /\ ~hasMore
    THEN /\ last' = [NoLast EXCEPT !.op = "loadMoreRefused"]
         /\ UNCHANGED <<prog, zeroStreak, due, tm>>
    ELSE LoadMoreStart
loadMore ==
    IF isLoading \/ ~hasMore
    THEN /\ last' = [NoLast EXCEPT !.op = "loadMoreRefused"]
         /\ UNCHANGED <<prog, zeroStreak, due, tm>>
    ELSE LoadMoreStart

\* The IntersectionObserver callback of setupInfiniteScroll (or the scroll
\* listener of the fallback): loadMore() only when its own guard passes.
onIntersect(isIntersecting) ==
    IF isIntersecting /\ ~isLoading /\ hasMore
    THEN LoadMoreStart
    ELSE UNCHANGED vars

\* The threshold test of loadMore.
tooManyFailedOff(fa) == fa > maxFailedAttempts
tooManyFailed(fa) == fa >= maxFailedAttempts

\* loadMore, resumed after its await with the outcome `out`.
loadMoreResume(i, out) ==
    LET t == tasks[i]
        data == fetchMemes(out)
        p == parseMemes(data, seenIds)
        res == appendCards(feed, p.memes)
        threw == p.threw \/ res.threw
        fa == IF ~threw /\ ~data.isNull /\ Len(p.memes) > 0 THEN 0
              ELSE failedAttempts + 1
        stop == ~threw /\ tooManyFailed(fa)
    IN
    /\ t.kind = "more"
    /\ Len(out.memes) <= t.count
    /\ fa <= MaxFailed
    /\ seenIds' = p.seenIds
    /\ feed' = IF p.threw THEN feed ELSE res.feed
    /\ failedAttempts' = fa
    /\ currentSubredditIndex' =
          IF threw THEN currentSubredditIndex
          ELSE (currentSubredditIndex + 1) % NumSubreddits
    /\ hasMore' = IF stop THEN FALSE ELSE hasMore
    /\ endMessage' = IF stop THEN TRUE ELSE endMessage
    /\ isLoading' = FALSE
    /\ loadingIndicator' = FALSE
    /\ tasks' = RemoveAt(tasks, i)
    /\ last' = [NoLast EXCEPT !.op = IF threw THEN "loadMoreThrew" ELSE "loadMoreDone",
                              !.first = t.first, !.n = Len(p.memes),
                              !.fa0 = IF Len(p.memes) = 0 THEN t.fa0 ELSE 0,
                              !.nsfw = NsfwSeen(out.memes, p.memes),
                              !.failed = (out.net # "ok"),
                              !.cur = currentSubredditIndex,
                              !.hit = \E k \in 1..Len(out.memes) :
                                          /\ ~out.memes[k].isNull
                                          /\ out.memes[k].postLink
                                                \in seenIds \ CardIds(feed)]
    /\ zeroStreak' = IF ~threw /\ Len(p.memes) = 0
                     THEN Min(zeroStreak + 1, maxFailedAttempts) ELSE 0
    /\ UNCHANGED <<itemsPerPage, due, tm>>

ReloadBodyKeepsCursor(op) ==
    /\ Len(tasks) < MaxTasks
    /\ hasMore' = TRUE
    /\ seenIds' = {}
    /\ failedAttempts' = 0
    /\ endMessage' = FALSE
    /\ feed' = showSkeletons(itemsPerPage)
    /\ isLoading' = TRUE
    /\ tasks' = Append([k \in 1..Len(tasks) |->
                            [tasks[k] EXCEPT !.solo = FALSE, !.first = FALSE,
                                             !.fresh = FALSE]],
                       [InitialTask(tasks = <<>>) EXCEPT !.fresh = TRUE])
    /\ last' = [NoLast EXCEPT !.op = op, !.hadSeen = (seenIds # {})]
    /\ zeroStreak' = 0
    /\ due' = FALSE
    /\ UNCHANGED <<itemsPerPage, loadingIndicator, currentSubredditIndex, tm>>

ReloadBodyKeepsEndMessage(op) ==
    /\ Len(tasks) < MaxTasks
    /\ hasMore' = TRUE
    /\ currentSubredditIndex' = 0
    /\ seenIds' = {}
    /\ failedAttempts' = 0
    /\ feed' = showSkeletons(itemsPerPage)
    /\ isLoading' = TRUE
    /\ tasks' = Append([k \in 1..Len(tasks) |->
                            [tasks[k] EXCEPT !.solo = FALSE, !.first = FALSE,
                                             !.fresh = FALSE]],
                       [InitialTask(tasks = <<>>) EXCEPT !.fresh = TRUE])
    /\ last' = [NoLast EXCEPT !.op = op, !.hadSeen = (seenIds # {})]
    /\ zeroStreak' = 0
    /\ due' = FALSE
    /\ UNCHANGED <<itemsPerPage, loadingIndicator, endMessage, tm>>

\* The body shared by the click handler of #reloadBtn and reloadFeed():
\* the session is reset and loadInitialMemes runs up to its first await.
ReloadBody(op) ==
    /\ Len(tasks) < MaxTasks
    /\ hasMore' = TRUE
    /\ currentSubredditIndex' = 0
    /\ seenIds' = {}
    /\ failedAttempts' = 0
    /\ endMessage' = FALSE
    /\ feed' = showSkeletons(itemsPerPage)
    /\ isLoading' = TRUE
    /\ tasks' = Append([k \in 1..Len(tasks) |->
                            [tasks[k] EXCEPT !.solo = FALSE, !.first = FALSE,
                                             !.fresh = FALSE]],
                       [InitialTask(tasks = <<>>) EXCEPT !.fresh = TRUE])
    /\ last' = [NoLast EXCEPT !.op = op, !.hadSeen = (seenIds # {})]
    /\ zeroStreak' = 0
    /\ due' = FALSE
    /\ UNCHANGED <<itemsPerPage, loadingIndicator, tm>>

reloadClick == ReloadBody("reloadClick")

reloadFeed == ReloadBody("reloadFeed")

\* The debounced resize listener of setup().
onResize(h) ==
    /\ itemsPerPage' = calculateItemsPerPage(h)
    /\ last' = [NoLast EXCEPT !.op = "resize"]
    /\ UNCHANGED <<isLoading, hasMore, currentSubredditIndex, seenIds, failedAttempts,
                   feed, endMessage, loadingIndicator, tasks, zeroStreak, due, tm>>

Next ==
    \/ \E i \in 1..Len(tasks), out \in Outcomes, r \in 0..(RandDen - 1) :
          loadInitialMemesResume(i, out, r)
    \/ loadMore
    \/ \E b \in BOOLEAN : onIntersect(b)
    \/ \E i \in 1..Len(tasks), out \in Outcomes : loadMoreResume(i, out)
    \/ reloadClick
    \/ reloadFeed

Spec == Init /\ [][Next]_vars

\* The specification with fairness: every fetch that has been issued
\* completes at some time, so the load that awaits it is resumed.
ResumeInitial ==
    \E i \in 1..Len(tasks), out \in Outcomes, r \in 0..(RandDen - 1) :
        loadInitialMemesResume(i, out, r)
ResumeMore == \E i \in 1..Len(tasks), out \in Outcomes : loadMoreResume(i, out)

SpecLive ==
    Init /\ [][Next]_vars /\ WF_vars(ResumeInitial) /\ WF_vars(ResumeMore)

\* The handlers that start a load.
StartOps == ReloadOps \cup {"loadMore"}

\* The full-page specification: a tall or short viewport, responses that are
\* runs of distinct well-formed records, no reload.
InitPage == (\E h \in ScreenHeights : Setup(h)) /\ tm = ThemeIdle

NextPage ==
    \/ \E i \in 1..Len(tasks), out \in PageOutcomes, r \in 0..(RandDen - 1) :
          loadInitialMemesResume(i, out, r)
    \/ \E b \in BOOLEAN : onIntersect(b)
    \/ \E i \in 1..Len(tasks), out \in PageOutcomes : loadMoreResume(i, out)
    \/ \E h \in ScreenHeights : onResize(h)

SpecPage == InitPage /\ [][NextPage]_vars

\* The specification with exceptions: the handlers of Spec, with responses
\* that make parseMemes or createMemeCard throw.
NextThrow ==
    \/ \E i \in 1..Len(tasks), out \in ThrowMix : loadInitialMemesResume(i, out, 0)
    \/ loadMore
    \/ \E b \in BOOLEAN : onIntersect(b)
    \/ \E i \in 1..Len(tasks), out \in ThrowMix : loadMoreResume(i, out)
    \/ reloadClick
    \/ reloadFeed

SpecThrow == Init /\ [][NextThrow]_vars

\* The theme specification: the handlers of ThemeManager on a page whose
\* feed is at rest in its startup state.
\* toggle(): click on #themeToggle.
toggle ==
    /\ tm.hasButton
    /\ tm' = [applyTheme(tm, IF tm.theme = "dark" THEN "light" ELSE "dark")
                EXCEPT !.scaled = TRUE, !.toggled = TRUE,
                       !.before = tm.theme, !.op = "toggle"]
    /\ UNCHANGED <<prog, last, zeroStreak, due>>

\* The timer of animateToggle().
animateEnd ==
    /\ tm.scaled
    /\ tm' = [tm EXCEPT !.scaled = FALSE, !.before = tm.theme, !.op = "animateEnd"]
    /\ UNCHANGED <<prog, last, zeroStreak, due>>

\* The system colour scheme changes to dark (matches) or to light; the
\* `change` listener of watchSystemTheme exists only when matchMedia does.
systemThemeChange(matches) ==
    LET os == IF matches THEN "dark" ELSE "light"
        t == [tm EXCEPT !.os = os, !.before = tm.theme, !.op = "change"]
    IN
    /\ os # tm.os
    /\ tm' = IF tm.hasMatchMedia /\ tm.stored = NoTheme
             THEN applyTheme(t, os)
             ELSE t
    /\ UNCHANGED <<prog, last, zeroStreak, due>>

InitTheme ==
    /\ Setup(DefaultHeight)
    /\ \E saved \in Themes \cup {NoTheme}, os \in Themes, mm \in BOOLEAN, b \in BOOLEAN :
          tm = ThemeManager(saved, os, mm, b)

NextTheme ==
    \/ toggle
    \/ animateEnd
    \/ \E matches \in BOOLEAN : systemThemeChange(matches)

SpecTheme == InitTheme /\ [][NextTheme]_vars

\* --------------------------------------------------------------- properties
IsCard(k) == feed[k].type = "card"
LastTask == tasks[Len(tasks)]

\* C1: in every reachable state no two item cards of the feed have the same
\* id, over all interleavings of loads, fetch completions and reloads.
C1_NoDuplicateCards ==
    \A j, k \in 1..Len(feed) :
        (j # k /\ IsCard(j) /\ IsCard(k)) => feed[j].id # feed[k].id

\* C2: isLoading is true whenever a load has started and not yet finished, and
\* at most one load is in flight at any time.
C2_LoadsExclusive ==
    /\ tasks # <<>> => isLoading
    /\ Len(tasks) <= 1

\* C3: a loadMore call made while isLoading is true or hasMore is false issues
\* no fetch and changes nothing of the session or the feed; right after a
\* loadMore call that passed the guard isLoading is true, so a second call
\* made while the first awaits its fetch adds no request to the one in flight.
C3_RefusedLoadMoreIsNoOp ==
    /\ [][(last'.op = "loadMoreRefused") => (prog' = prog)]_vars
    /\ [][((isLoading \/ ~hasMore) /\ loadMore) => (tasks' = tasks)]_vars
    /\ [](last.op = "loadMore" => (isLoading /\ LastTask.kind = "more"))

C3_Witness ==
    /\ last.op = "loadMoreRefused"
    /\ Len(tasks) = 1
    /\ tasks[1].kind = "more"
    /\ hasMore

\* C4: after 3 consecutive completed incremental loads that each yielded zero
\* items, with no reload in between, hasMore is false and the end-of-feed
\* indicator is shown; hasMore becomes true again only by a reload, and while
\* it is false no loadMore call starts a load.
C4_ExhaustedAfterThreeMisses ==
    /\ [](zeroStreak >= maxFailedAttempts => (~hasMore /\ endMessage))
    /\ [][(~hasMore /\ hasMore') => (last'.op \in ReloadOps)]_vars
    /\ [][~hasMore => (last'.op # "loadMore")]_vars

C4_Witness ==
    /\ zeroStreak = maxFailedAttempts
    /\ last.op = "loadMoreRefused"
    /\ ~hasMore
    /\ ~isLoading

\* C5: when an incremental load that passed the guard completes,
\* failedAttempts is 0 if it produced an item and its value at the start of
\* the load plus 1 if it produced none.
C5_FailedAttemptsFromStart ==
    last.op = "loadMoreDone" =>
        failedAttempts = (IF last.n > 0 THEN 0 ELSE last.fa0 + 1)

\* C6: right after a reload, from any state, seenIds is empty, the cursor 0,
\* failedAttempts 0, hasMore true, the end-of-feed indicator hidden, the feed
\* without item cards, and an initial load started; an id that was in seenIds
\* before the reload is accepted by the normalizer again.
C6_ReloadResets ==
    /\ [](last.op \in ReloadOps =>
            /\ seenIds = {}
            /\ currentSubredditIndex = 0
            /\ failedAttempts = 0
            /\ hasMore
            /\ ~endMessage
            /\ \A k \in 1..Len(feed) : ~IsCard(k)
            /\ isLoading
            /\ LastTask.kind = "initial"
            /\ LastTask.sub = 0
            /\ LastTask.allMemes = <<>>)
    /\ [][(last'.op \in ReloadOps) =>
            \A id \in seenIds :
                parseMemes(fetchMemes(Body(<<Post(id, FALSE, TRUE)>>)), seenIds').memes
                    = <<Meme(Post(id, FALSE, TRUE))>>]_vars

C6_Witness ==
    /\ last.op \in ReloadOps
    /\ last.hadSeen
    /\ Len(tasks) = 2
    /\ tasks[1].kind = "more"

\* C7: the first incremental load that runs after an initial load completes
\* fetches the category at index 0 and leaves the cursor at index 1, whatever
\* loads were in flight when a reload was issued.
C7_FirstLoadMoreFromZero ==
    /\ (last.op = "loadMore" /\ last.first) => LastTask.sub = 0
    /\ (last.op = "loadMoreDone" /\ last.first) => currentSubredditIndex = 1

\* C8: an initial load that no reload and no other load overlapped requests
\* every category exactly once, in registry order, and when N > 0 items
\* survived normalization it leaves exactly min(pageSize, N) item cards in the
\* feed, with distinct ids that all are normalized items of this load.
C8_InitialLoadRendersPage ==
    (last.op = "initialDone" /\ last.solo) =>
        /\ last.reqs = [k \in 1..NumSubreddits |-> k - 1]
        /\ last.n > 0
        /\ Len(feed) = Min(itemsPerPage, last.n)
        /\ \A k \in 1..Len(feed) : IsCard(k)
        /\ C1_NoDuplicateCards
        /\ CardIds(feed) \subseteq seenIds
        /\ Cardinality(seenIds) = last.n
        /\ tasks = <<>>

C8_Witness ==
    /\ last.op = "initialDone"
    /\ last.solo
    /\ last.n > itemsPerPage
    /\ Len(feed) = itemsPerPage

\* C9: an initial load that ends with zero items shows the error state and
\* sets isLoading to false; it does not exhaust the feed: hasMore stays true
\* and the end-of-feed indicator stays hidden, and they are so after every
\* such load that nothing overlapped.
C9_EmptyInitialLoadIsError ==
    /\ [](last.op = "initialEmpty" => (feed = <<ErrorBox>> /\ ~isLoading))
    /\ [](last.op = "initialEmpty" /\ last.solo => (hasMore /\ ~endMessage))
    /\ [][(last'.op = "initialEmpty") =>
            ((hasMore => hasMore') /\ (~endMessage => ~endMessage'))]_vars

C9_Witness ==
    /\ last.op = "initialEmpty"
    /\ last.solo
    /\ hasMore

\* C10: a record flagged NSFW never produces an item and is never rendered,
\* whether its id is in seenIds or not, in initial and incremental loads:
\* every produced item, and every card, comes from a safe record.
C10_NsfwNeverProduced ==
    /\ last.nsfw # "leaked"
    /\ NsfwOnlyId \notin seenIds
    /\ NsfwOnlyId \notin CardIds(feed)
    /\ \A k \in 1..Len(tasks) : NsfwOnlyId \notin MemeIds(tasks[k].allMemes)

C10_Witness ==
    /\ last.op = "loadMoreDone"
    /\ last.nsfw = "dropped"
    /\ MaxId \in seenIds
    /\ CardIds(feed) # {}

\* C11: a fetch that fails (transport error or non-success status) yields the
\* absent result and never aborts the load that issued it: an initial load
\* goes on to the next category, or, after the last one, ends with every
\* category requested and the items of the categories that succeeded
\* rendered; an incremental load completes and sets isLoading to false.
C11_FailedFetchIsAbsent ==
    /\ [](\A out \in {NetError, HttpError} : fetchMemes(out) = NullData)
    /\ [](last.failed =>
            /\ last.op \in {"initialNext", "initialEmpty", "initialDone", "loadMoreDone"}
            /\ last.op \in {"initialEmpty", "initialDone"} =>
                    /\ last.reqs = [k \in 1..NumSubreddits |-> k - 1]
                    /\ ~isLoading
            /\ last.op = "initialDone" =>
                    /\ last.n > 0
                    /\ Cardinality(CardIds(feed)) >= 1
                    /\ Len(feed) = Min(itemsPerPage, last.n)
            /\ last.op = "loadMoreDone" => (~isLoading /\ last.n = 0))
    /\ [][\A i \in 1..Len(tasks) : \A out \in {NetError, HttpError} :
            /\ (tasks[i].sub + 1 < NumSubreddits
                    /\ loadInitialMemesResume(i, out, 0)) =>
                  (/\ Len(tasks') = Len(tasks)
                   /\ tasks'[i].kind = "initial"
                   /\ tasks'[i].sub = tasks[i].sub + 1
                   /\ tasks'[i].allMemes = tasks[i].allMemes
                   /\ seenIds' = seenIds)
            /\ loadMoreResume(i, out) =>
                  (/\ Len(tasks') = Len(tasks) - 1
                   /\ ~isLoading'
                   /\ feed' = feed
                   /\ seenIds' = seenIds)]_vars

C11_Witness ==
    /\ last.failed
    /\ last.op = "initialDone"
    /\ last.solo
    /\ CardIds(feed) # {}

\* C12: from every reachable state, after failed fetches, an empty initial
\* load, exhaustion or an exception, when the initial load started by a
\* reload has completed with at least one valid item, isLoading is false,
\* hasMore is true and items are rendered.
C12_ReloadRecovers ==
    (last.op = "initialDone" /\ last.fresh) =>
        (~isLoading /\ hasMore /\ CardIds(feed) # {})

\* C13: theme manager: when the user has never toggled the theme, a system
\* colour-scheme change event leaves the theme matching the system; when the
\* user has toggled, the event leaves the theme as it was.
C13_SystemChangeFollowsUnlessToggled ==
    (tm.op = "change" /\ tm.hasMatchMedia) =>
        /\ ~tm.toggled => (tm.theme = tm.os /\ tm.attr = tm.os)
        /\ tm.toggled => tm.theme = tm.before

\* C14: every incremental load that passed the guard has advanced the cursor
\* by exactly one position modulo the registry length when it finishes,
\* whether the fetch was absent, produced no item, produced items, or an
\* exception was raised while normalizing or rendering.
C14_CursorAlwaysAdvances ==
    last.op \in {"loadMoreDone", "loadMoreThrew"} =>
        currentSubredditIndex = (last.cur + 1) % NumSubreddits

\* C15: a load whose fetch never completes stays in flight for ever; the
\* property is that isLoading then stays true and no later incremental load
\* issues a fetch, whatever scroll triggers and reloads occur: in every
\* state with a load in flight isLoading is true, and no loadMore has just
\* issued a fetch beside a load that was already in flight.
C15_HungFetchStalls ==
    tasks # <<>> =>
        /\ isLoading
        /\ ~(last.op = "loadMore" /\ Len(tasks) > 1)

\* C16: in every reachable state the id of every item card of the feed is a
\* member of seenIds, over all interleavings of loads, fetch completions and
\* reloads.
C16_RenderedSubsetOfSeen == CardIds(feed) \subseteq seenIds

\* C17: in every reachable state the end-of-feed indicator is visible if and
\* only if hasMore is false, also when a reload happens while an incremental
\* load is in flight.
C17_EndMessageIffExhausted == endMessage <=> ~hasMore

C17_Witness ==
    /\ ~hasMore
    /\ endMessage
    /\ Len(tasks) = 1
    /\ tasks[1].kind = "initial"
    /\ tasks[1].fresh

\* C18: failedAttempts never exceeds maxFailedAttempts, and whenever no load
\* is in flight hasMore is false exactly when failedAttempts is at least
\* maxFailedAttempts.
C18_FailedAttemptsBounded ==
    /\ failedAttempts <= maxFailedAttempts
    /\ tasks = <<>> => (~hasMore <=> failedAttempts >= maxFailedAttempts)

C20_CutOffNeverRendered ==
    /\ []((last.op = "initialDone" /\ last.n > itemsPerPage) =>
            /\ Cardinality(seenIds \ CardIds(feed)) = last.n - itemsPerPage
            /\ Cardinality(CardIds(feed)) = itemsPerPage)
    /\ [][(last'.op # "initialDone") =>
            \A id \in seenIds \ CardIds(feed) :
                id \in seenIds' /\ id \notin CardIds(feed')]_vars

C20_Witness ==
    /\ last.op = "loadMoreDone"
    /\ last.hit
    /\ seenIds \ CardIds(feed) # {}
    /\ Len(feed) >= itemsPerPage

====
